---- MODULE Spec2Model ----
(***************************************************************************)
(* Simplechatapp: the chat server (SocketAdapter, DatabaseAdapter,         *)
(* MessageService and the socket.io 'chat message' handler) and the        *)
(* browser client (optimistic message list, pendingMessages, retry, typing  *)
(* signals, connection status, notifications).                             *)
(***************************************************************************)
EXTENDS Integers, Sequences, FiniteSets, TLC

\* ------------------------------------------------------------- bounds
\* 'chat message' events emitted by clients in one run
MaxReq == 2
\* connections the browser opens in one run (socket ids are never reused);
\* every other peer opens one fewer
MaxConn == 2

\* A browser running the page script, another socket.io peer that emits
\* arbitrary payloads (the server handler's whole input domain), and a
\* peer that only listens.
UIClients == {"c1"}
RawClients == {"x"}
Listeners == {"y"}
Peers == UIClients \cup RawClients \cup Listeners
ConnLimit(p) == IF p \in UIClients THEN MaxConn ELSE MaxConn - 1

\* 'typing' and 'stop_typing' events the browser emits in one run
MaxTyping == 4

\* reconnectionAttempts of the io(...) options
ReconnectionAttempts == 5

\* ------------------------------------------------------ JavaScript values
\* A string is a sequence of tokens; the token " " is white space.
\* undefined is a value of its own.
SP == " "
Undefined == [def |-> FALSE, s |-> <<>>]
Str(s) == [def |-> TRUE, s |-> s]
EmptyStr == Str(<<>>)

RECURSIVE TrimStart(_)
TrimStart(s) == IF s # <<>> /\ Head(s) = SP THEN TrimStart(Tail(s)) ELSE s

RECURSIVE TrimEnd(_)
TrimEnd(s) ==
  IF s # <<>> /\ s[Len(s)] = SP THEN TrimEnd(SubSeq(s, 1, Len(s) - 1)) ELSE s

\* String.prototype.trim
Trim(v) == Str(TrimEnd(TrimStart(v.s)))

\* JavaScript truthiness of a string-or-undefined value
Truthy(v) == v.def /\ v.s # <<>>

\* a || b
Or(a, b) == IF Truthy(a) THEN a ELSE b

Anonymous == Str(<<"Anonymous">>)
MsgEmpty == Str(<<"Message cannot be empty">>)
MsgSaveFailed == Str(<<"Failed to save message">>)
MsgInternal == Str(<<"Internal server error">>)

\* ------------------------------------------------------------ inputs
\* Payloads a peer may put on the wire.  NullData is an event without a
\* payload object.
NullData == [obj |-> FALSE, username |-> Undefined, text |-> Undefined]
Data(u, t) == [obj |-> TRUE, username |-> u, text |-> t]
RawData ==
  { NullData,
    Data(Undefined, Undefined),
    Data(Str(<<"Zed">>), Str(<<SP>>)),
    Data(EmptyStr, Str(<<SP, "hi", SP>>)) }

\* Payloads for the server alone: also a username that is absent, and one
\* that is white space, with a text the server stores.
ServerData ==
  RawData \cup { Data(Undefined, Str(<<"hi", SP>>)),
                 Data(Str(<<SP>>), Str(<<"hi">>)) }

\* a message of another session whose user chose the name the browser's
\* user may choose
NamesakeData == {Data(Str(<<"Ann">>), Str(<<"hi">>))}

\* error.message of an error thrown by Message.create
ErrDetails == {Str(<<"SequelizeConnectionError">>), EmptyStr}

\* What the user may have typed in #m and in #username
InputTexts == {Str(<<SP>>), Str(<<SP, "yo">>)}
InputNames == {EmptyStr, Str(<<"Ann", SP>>)}

\* the inputs sendMessage and setUsername accept
ValidTexts == {v \in InputTexts : Truthy(Trim(v))}
ValidNames == {v \in InputNames : Truthy(Trim(v))}

\* ------------------------------------------------------------- state
VARIABLES
  sock,            \* peer -> number of its open connection, 0 when it has none
  conns,           \* peer -> connections it has opened so far
  ioSockets,       \* socket ids connected to the socket.io namespace
  clients,         \* SocketAdapter.clients: socket id -> {socket}
  store,           \* rows of the Messages table, in creation order
  reqs,            \* every 'chat message' event emitted, with its handler's position
  emits,           \* history: 'chat message' events the server emitted
  acks,            \* history: invocations of acknowledgementCallback
  inbox,           \* UI client -> packets on the wire to it, in order
  myName,          \* UI client -> myName
  tempIdCounter,   \* UI client -> tempIdCounter
  messagesEl,      \* UI client -> the <li> children of #messages, in order
  pendingMessages, \* UI client -> pendingMessages (tempId -> {li, username, text})
  ackWait,         \* UI client -> requests whose callback is registered and not yet invoked
  notification,    \* UI client -> the #notification element
  isTyping,        \* UI client -> isTyping
  typingTimeout,   \* UI client -> TRUE while the timer of typingTimeout is pending
  typingLog,       \* every 'typing' / 'stop_typing' event emitted, with its position on the wire
  network,         \* UI client -> navigator.onLine
  isOnline,        \* UI client -> isOnline
  statusDiv,       \* UI client -> the #connection-status element
  attempts,        \* UI client -> reconnection attempts the Manager made since the drop
  reconnecting     \* UI client -> TRUE while the Manager is in its reconnection cycle

presenceVars == <<isTyping, typingTimeout, typingLog>>
monitorVars == <<network, isOnline, statusDiv, attempts, reconnecting>>
listVars == <<myName, tempIdCounter, messagesEl, pendingMessages, ackWait>>
uiVars == <<listVars, notification, presenceVars, monitorVars>>
serverVars == <<ioSockets, clients, store, emits, acks>>

vars == <<sock, conns, serverVars, reqs, inbox, uiVars>>

\* socket.id of the n-th connection of peer p; NoSocket is null
SocketId(p, n) == <<p, n>>
NoSocket == <<"", 0>>
CurrentSocket(p) == IF sock[p] = 0 THEN NoSocket ELSE SocketId(p, sock[p])

\* ---------------------------------------------------------- SocketAdapter
\* this.clients.set(socket.id, {socket, connectedAt})
handleConnection(cl, socketId) ==
  [k \in DOMAIN cl \cup {socketId} |->
     IF k = socketId THEN [socket |-> socketId] ELSE cl[k]]

\* a 'disconnect' handler that leaves the entry in the map
handleDisconnection_keep(cl, socketId) == cl

\* if (this.clients.has(socketId)) this.clients.delete(socketId)
handleDisconnection(cl, socketId) ==
  IF socketId \in DOMAIN cl
    THEN [k \in DOMAIN cl \ {socketId} |-> cl[k]]
    ELSE cl

getConnectedClients(cl) == DOMAIN cl
getClientCount(cl) == Cardinality(DOMAIN cl)

\* The set of sockets an adapter call delivers (event, data) to.
\* io.emit: every socket of the namespace.
broadcast(io) == io

\* sender.socket.emit in place of sender.socket.broadcast.emit
broadcastExcept_senderOnly(cl, io, senderSocketId) ==
  IF senderSocketId \in DOMAIN cl
    THEN {cl[senderSocketId].socket} \cap io
    ELSE {}

\* this.io.emit in place of sender.socket.broadcast.emit
broadcastExcept_everyone(cl, io, senderSocketId) ==
  IF senderSocketId \in DOMAIN cl THEN io ELSE {}

\* an else branch that falls back to this.io.emit
broadcastExcept_fallback(cl, io, senderSocketId) ==
  IF senderSocketId \in DOMAIN cl
    THEN io \ {cl[senderSocketId].socket}
    ELSE io

\* socket.broadcast.emit: every socket of the namespace but the sender;
\* nothing when the sender is not in this.clients.
broadcastExcept(cl, io, senderSocketId) ==
  IF senderSocketId \in DOMAIN cl
    THEN io \ {cl[senderSocketId].socket}
    ELSE {}

\* client.socket.emit when the client is registered; the set is empty when
\* sendToClient returns false.
sendToClient(cl, io, socketId) ==
  IF socketId \in DOMAIN cl THEN {cl[socketId].socket} \cap io ELSE {}

\* ------------------------------------------------------- DatabaseAdapter
NoRow == [id |-> 0, username |-> Undefined, text |-> Undefined, createdAt |-> 0, req |-> 0]

\* The row Message.create inserts for `values`: the store assigns id and
\* createdAt.  req is history: the request whose handler made the call.
MessageCreate(rows, values, r) ==
  [id |-> Len(rows) + 1, username |-> values.username, text |-> values.text,
   createdAt |-> 100 + Len(rows) + 1, req |-> r]

\* The values saveMessage hands to Message.create
saveMessageValues(data) ==
  [username |-> Or(data.username, Anonymous), text |-> data.text]

\* saveMessage's result when Message.create resolves with `saved`
saveMessageOk(saved) == [success |-> TRUE, data |-> saved, error |-> Undefined]

\* saveMessage's result when Message.create throws an error with message `detail`
saveMessageFailed(detail) == [success |-> FALSE, data |-> NoRow, error |-> detail]

\* -------------------------------------------------------- MessageService
NoPayload == [id |-> 0, sender |-> Undefined, text |-> Undefined, createdAt |-> 0,
              isBroadcast |-> FALSE, isOwnMessage |-> FALSE]
NoResult == [success |-> FALSE, error |-> Undefined, code |-> "", data |-> NoRow,
             broadcastData |-> NoPayload]

\* a check that forgets to trim: !messageData.text
IsEmptyMessage_noTrim(messageData) == ~Truthy(messageData.text)

\* !messageData.text || messageData.text.trim() === ''
IsEmptyMessage(messageData) ==
  \/ ~Truthy(messageData.text)
  \/ Trim(messageData.text) = EmptyStr

ValidationFailure ==
  [NoResult EXCEPT !.error = MsgEmpty, !.code = "VALIDATION_ERROR"]

\* a call that hands the text over as it came: text: messageData.text
sendMessageData_noTrim(messageData) ==
  [username |-> Or(messageData.username, Anonymous),
   text |-> messageData.text]

\* What sendMessage passes to this.db.saveMessage
sendMessageData(messageData) ==
  [username |-> Or(messageData.username, Anonymous),
   text |-> Trim(messageData.text)]

\* a failure that drops dbResult.error
DatabaseFailure_generic(dbResult) ==
  [NoResult EXCEPT !.error = MsgSaveFailed, !.code = "DATABASE_ERROR"]

DatabaseFailure(dbResult) ==
  [NoResult EXCEPT !.error = Or(dbResult.error, MsgSaveFailed),
                   !.code = "DATABASE_ERROR"]

\* broadcastData built from the stored row; an absent isOwnMessage is falsy
BroadcastData(row) ==
  [id |-> row.id, sender |-> row.username, text |-> row.text,
   createdAt |-> row.createdAt, isBroadcast |-> TRUE, isOwnMessage |-> FALSE]

SendSuccess(dbResult) ==
  [success |-> TRUE, error |-> Undefined, code |-> "", data |-> dbResult.data,
   broadcastData |-> BroadcastData(dbResult.data)]

\* The sockets sendMessage delivers broadcastData to
sendMessageTargets(cl, io, senderSocketId) ==
  IF senderSocketId # NoSocket
    THEN broadcastExcept(cl, io, senderSocketId)
    ELSE broadcast(io)

\* ------------------------------------------------ 'chat message' handler
NoAck == [status |-> "", messageId |-> 0, sender |-> Undefined, text |-> Undefined,
          timestamp |-> 0, message |-> Undefined, code |-> ""]

\* messageId taken from the wrong field of the row
AckSuccess_wrongId(result) ==
  [NoAck EXCEPT !.status = "success", !.messageId = result.data.createdAt,
                !.sender = result.data.username, !.text = result.data.text,
                !.timestamp = result.data.createdAt, !.code = "MESSAGE_SENT"]

AckSuccess(result) ==
  [NoAck EXCEPT !.status = "success", !.messageId = result.data.id,
                !.sender = result.data.username, !.text = result.data.text,
                !.timestamp = result.data.createdAt, !.code = "MESSAGE_SENT"]

AckError(result) ==
  [NoAck EXCEPT !.status = "error", !.message = result.error, !.code = result.code]

\* the catch branch: no code
AckInternal == [NoAck EXCEPT !.status = "error", !.message = MsgInternal]

\* the sender's copy without the isOwnMessage marker
OwnMessage_unmarked(result) == result.broadcastData

OwnMessage(result) == [result.broadcastData EXCEPT !.isOwnMessage = TRUE]

\* ------------------------------------------------------------ transport
ChatPkt(r, msg) == [ev |-> "chat message", req |-> r, ack |-> NoAck, msg |-> msg]
AckPkt(r, ack) == [ev |-> "ack", req |-> r, ack |-> ack, msg |-> NoPayload]

\* history entry for one emit call that reaches the sockets `targets`
EmitLog(r, targets, msg) ==
  IF targets = {} THEN <<>>
  ELSE <<[ev |-> "chat message", req |-> r, to |-> targets, msg |-> msg]>>

HasCallback(rq) == rq.cb.kind # "none"

\* The handler's acknowledgement: logged, and put on the wire to the
\* emitting socket while that socket is connected.
AckPackets(rq, r, c, ack) ==
  IF HasCallback(rq) /\ sock[c] # 0 /\ CurrentSocket(c) = rq.sock
    THEN <<AckPkt(r, ack)>> ELSE <<>>

ChatPackets(r, c, targets, msg) ==
  IF CurrentSocket(c) \in targets THEN <<ChatPkt(r, msg)>> ELSE <<>>

\* ------------------------------------------- notification, status element
\* showNotification(message, isError): the #notification element it leaves;
\* its timer hides the element 3000 ms later.
showNotification(message, isError) ==
  [text |-> message, isError |-> isError, display |-> "block"]

\* #notification before the first showNotification
NoNotification == [text |-> EmptyStr, isError |-> FALSE, display |-> "none"]

MsgEnterMessage == Str(<<"Please enter a message">>)
MsgEnterName == Str(<<"Please enter a name.">>)
MsgConnected == Str(<<"Connected to chat server">>)
MsgDisconnected == Str(<<"Disconnected from server">>)
MsgOffline ==
  Str(<<"You are offline. Messages will be sent when connection is restored.">>)
MsgNameSet(name) == Str(<<"Name set to: ">> \o name.s)
MsgFailedToSend(detail) ==
  Str(<<"Failed to send: ">> \o (IF detail.def THEN detail.s ELSE <<"undefined">>))
\* the acknowledgement carries no serverTime: new Date(undefined)
MsgSentAt == Str(<<"Message sent at ", "Invalid Date">>)

\* updateConnectionStatus(text, color): the #connection-status element it
\* leaves; attempt is the number shown by 'Connecting... (Attempt n)'.
updateConnectionStatus(text, attempt, color) ==
  [text |-> text, attempt |-> attempt, color |-> color, display |-> "block"]

\* statusDiv as created: display none
NoConnectionStatus == [text |-> "", attempt |-> 0, color |-> "#28a745", display |-> "none"]

StatusConnected == updateConnectionStatus("Connected", 0, "#28a745")
StatusDisconnected == updateConnectionStatus("Disconnected", 0, "#dc3545")
StatusConnecting(n) == updateConnectionStatus("Connecting...", n, "#ffc107")
StatusOnline == updateConnectionStatus("Online - Connecting...", 0, "#ffc107")
StatusOffline == updateConnectionStatus("Offline", 0, "#6c757d")
StatusHealthy == updateConnectionStatus("Healthy", 0, "#28a745")
StatusIssues == updateConnectionStatus("Issues Detected", 0, "#ffc107")
StatusUnreachable == updateConnectionStatus("Server Unreachable", 0, "#dc3545")

\* what a fetch of /health may come to: status 'healthy', another status,
\* or a rejected promise
HealthResults == {"healthy", "unhealthy", "failed"}

\* ---------------------------------------------------------------- Init
EmptyMap == [k \in {} |-> 0]

Init ==
  /\ sock = [p \in Peers |-> 0]
  /\ conns = [p \in Peers |-> 0]
  /\ ioSockets = {}
  /\ clients = EmptyMap
  /\ store = <<>>
  /\ reqs = <<>>
  /\ emits = <<>>
  /\ acks = <<>>
  /\ inbox = [c \in UIClients |-> <<>>]
  /\ myName = [c \in UIClients |-> EmptyStr]
  /\ tempIdCounter = [c \in UIClients |-> 1]
  /\ messagesEl = [c \in UIClients |-> <<>>]
  /\ pendingMessages = [c \in UIClients |-> EmptyMap]
  /\ ackWait = [c \in UIClients |-> {}]
  /\ notification = [c \in UIClients |-> NoNotification]
  /\ isTyping = [c \in UIClients |-> FALSE]
  /\ typingTimeout = [c \in UIClients |-> FALSE]
  /\ typingLog = <<>>
  /\ network = [c \in UIClients |-> TRUE]
  /\ isOnline = [c \in UIClients |-> network[c]]
  /\ statusDiv = [c \in UIClients |-> NoConnectionStatus]
  /\ attempts = [c \in UIClients |-> 0]
  /\ reconnecting = [c \in UIClients |-> FALSE]

\* ------------------------------------------------- connection lifecycle
\* The transport opens a connection for peer p: the socket joins the
\* namespace, io.on('connection') registers it, and the client library
\* flushes the events it buffered while disconnected.
\* Of the page script this runs the 'connect' handler (after the
\* 'reconnect_attempt' and 'reconnect' handlers when the Manager reconnects);
\* the Manager's reconnection cycle ends.
Connect(p) ==
  /\ sock[p] = 0
  /\ conns[p] < ConnLimit(p)
  /\ p \in UIClients => (network[p] /\ (conns[p] = 0 \/ reconnecting[p]))
  /\ LET id == SocketId(p, conns[p] + 1) IN
     /\ sock' = [sock EXCEPT ![p] = conns[p] + 1]
     /\ conns' = [conns EXCEPT ![p] = @ + 1]
     /\ ioSockets' = ioSockets \cup {id}
     /\ clients' = handleConnection(clients, id)
     /\ reqs' = [r \in DOMAIN reqs |->
                  IF reqs[r].client = p /\ reqs[r].pc = "buffered"
                    THEN [reqs[r] EXCEPT !.pc = "inflight", !.sock = id]
                    ELSE reqs[r]]
     /\ typingLog' = [k \in DOMAIN typingLog |->
                       IF typingLog[k].client = p /\ typingLog[k].pc = "buffered"
                         THEN [typingLog[k] EXCEPT !.pc = "inflight", !.sock = id]
                         ELSE typingLog[k]]
  /\ IF p \in UIClients
       THEN /\ isOnline' = [isOnline EXCEPT ![p] = TRUE]
            /\ statusDiv' = [statusDiv EXCEPT ![p] = StatusConnected]
            /\ notification' = [notification EXCEPT ![p] =
                                  showNotification(MsgConnected, FALSE)]
            /\ attempts' = [attempts EXCEPT ![p] = 0]
            /\ reconnecting' = [reconnecting EXCEPT ![p] = FALSE]
       ELSE UNCHANGED <<isOnline, statusDiv, notification, attempts, reconnecting>>
  /\ UNCHANGED <<store, emits, acks, inbox, listVars, isTyping, typingTimeout, network>>

\* The connection of peer p drops: the socket leaves the namespace, the
\* server's 'disconnect' handler unregisters it, and what was on the wire is
\* lost.  The page script runs its 'disconnect' handler and the Manager
\* starts its reconnection cycle.
Disconnect(p) ==
  /\ sock[p] # 0
  /\ sock' = [sock EXCEPT ![p] = 0]
  /\ ioSockets' = ioSockets \ {CurrentSocket(p)}
  /\ clients' = handleDisconnection(clients, CurrentSocket(p))
  /\ reqs' = [r \in DOMAIN reqs |->
               IF reqs[r].sock = CurrentSocket(p) /\ reqs[r].pc = "inflight"
                 THEN [reqs[r] EXCEPT !.pc = "lost"]
                 ELSE reqs[r]]
  /\ inbox' = [c \in UIClients |-> IF c = p THEN <<>> ELSE inbox[c]]
  /\ typingLog' = [k \in DOMAIN typingLog |->
                    IF typingLog[k].sock = CurrentSocket(p) /\ typingLog[k].pc = "inflight"
                      THEN [typingLog[k] EXCEPT !.pc = "lost"]
                      ELSE typingLog[k]]
  /\ IF p \in UIClients
       THEN /\ isOnline' = [isOnline EXCEPT ![p] = FALSE]
            /\ statusDiv' = [statusDiv EXCEPT ![p] = StatusDisconnected]
            /\ notification' = [notification EXCEPT ![p] =
                                  showNotification(MsgDisconnected, TRUE)]
            /\ attempts' = [attempts EXCEPT ![p] = 0]
            /\ reconnecting' = [reconnecting EXCEPT ![p] = TRUE]
       ELSE UNCHANGED <<isOnline, statusDiv, notification, attempts, reconnecting>>
  /\ UNCHANGED <<conns, store, emits, acks, listVars, isTyping, typingTimeout, network>>

\* ------------------------------------------------------------- requests
NewReq(p, data, cb) ==
  [client |-> p, sock |-> CurrentSocket(p), data |-> data, cb |-> cb,
   pc |-> IF sock[p] # 0 THEN "inflight" ELSE "buffered",
   creates |-> 0, res |-> NoResult,
   \* history of the handler's run: whether Message.create threw and with
   \* which message, and the namespace and the registry when it resolved
   rejected |-> FALSE, detail |-> Undefined, present |-> {}, registered |-> {}]

Callback(kind, tempId, li) == [kind |-> kind, tempId |-> tempId, li |-> li]

\* ------------------------------------------------------- page script
\* dataset.messageId: a temporary id `temp-n` or the id of a stored row
TempId(n) == [temp |-> TRUE, n |-> n]
RowId(n) == [temp |-> FALSE, n |-> n]
NoId == RowId(0)

\* The text of a status span: its kind and, for a failure, the message shown
Status(tag, detail) == [tag |-> tag, detail |-> detail]
NoStatus == Status("", Undefined)

\* createdAt of an element rendered from the local clock (new Date())
LocalTime == 0
NoDate == -1

\* An <li> of #messages: its data-message-id, the content line, the time
\* and status of .meta, the class list, and the retry button .meta holds.
\* retryData is the {username, text} the button's onclick closes over.
createMessageElement(name, msg) ==
  [messageId |-> msg.id, sender |-> msg.sender, text |-> msg.text,
   createdAt |-> msg.createdAt,
   classes |-> IF msg.isPending THEN {"pending"}
               ELSE IF msg.sender = name THEN {"me"} ELSE {},
   status |-> msg.status, retryBtn |-> "none",
   retryData |-> Data(Undefined, Undefined)]

NoUpdates == [sender |-> Undefined, text |-> Undefined, createdAt |-> NoDate,
              status |-> NoStatus, id |-> NoId]

\* updateMessageElement(li, updates).  Assigning meta.textContent drops the
\* children of .meta: the status span and a retry button.
updateMessageElement(li, updates) ==
  LET a == IF Truthy(updates.sender) /\ Truthy(updates.text)
             THEN [li EXCEPT !.sender = updates.sender, !.text = updates.text]
             ELSE li
      b == IF updates.createdAt # NoDate
             THEN [a EXCEPT !.createdAt = updates.createdAt, !.status = NoStatus,
                            !.retryBtn = "none"]
             ELSE a
      c == IF updates.status # NoStatus THEN [b EXCEPT !.status = updates.status] ELSE b
  IN IF updates.id.n # 0 THEN [c EXCEPT !.messageId = updates.id] ELSE c

\* a button whose onclick closes over the arguments in the wrong order
addRetryButton_swapped(li, username, text) ==
  [li EXCEPT !.retryBtn = "enabled", !.retryData = Data(text, username)]

\* addRetryButton(li, username, text)
addRetryButton(li, username, text) ==
  [li EXCEPT !.retryBtn = "enabled", !.retryData = Data(username, text)]

\* socket.emit('typing' | 'stop_typing', {username: myName}): the entry of
\* typingLog.  registered is history: the registry when the server got it.
\* by and registered are history: the handler that emitted the event, and
\* the registry when the server got it.
TypingEvent(c, ev, by) ==
  [client |-> c, ev |-> ev, username |-> myName[c], sock |-> CurrentSocket(c),
   pc |-> IF sock[c] # 0 THEN "inflight" ELSE "buffered", by |-> by,
   registered |-> {}]

\* a handler that emits 'typing' on every input event
handleTyping_everyInput(c) ==
  IF ~Truthy(myName[c]) THEN UNCHANGED vars
  ELSE
    /\ Len(typingLog) + 2 <= MaxTyping
    /\ isTyping' = [isTyping EXCEPT ![c] = TRUE]
    /\ typingLog' = Append(typingLog, TypingEvent(c, "typing", "input"))
    /\ typingTimeout' = [typingTimeout EXCEPT ![c] = TRUE]
    /\ UNCHANGED <<sock, conns, serverVars, reqs, inbox, listVars, notification,
                   monitorVars>>

\* handleTyping: an input event on #m.  clearTimeout and setTimeout leave
\* one pending timer.
handleTyping(c) ==
  IF ~Truthy(myName[c]) THEN UNCHANGED vars
  ELSE
    /\ IF ~isTyping[c]
         THEN /\ Len(typingLog) + 2 <= MaxTyping
              /\ isTyping' = [isTyping EXCEPT ![c] = TRUE]
              /\ typingLog' = Append(typingLog, TypingEvent(c, "typing", "input"))
         ELSE UNCHANGED <<isTyping, typingLog>>
    /\ typingTimeout' = [typingTimeout EXCEPT ![c] = TRUE]
    /\ UNCHANGED <<sock, conns, serverVars, reqs, inbox, listVars, notification,
                   monitorVars>>

\* The timer of typingTimeout fires, 1000 ms after the last input event
TypingTimeoutFires(c) ==
  /\ typingTimeout[c]
  /\ typingTimeout' = [typingTimeout EXCEPT ![c] = FALSE]
  /\ IF isTyping[c]
       THEN /\ isTyping' = [isTyping EXCEPT ![c] = FALSE]
            /\ typingLog' = Append(typingLog, TypingEvent(c, "stop_typing", "timer"))
       ELSE UNCHANGED <<isTyping, typingLog>>
  /\ UNCHANGED <<sock, conns, serverVars, reqs, inbox, listVars, notification,
                 monitorVars>>

\* The timer of showNotification fires: the element is hidden
NotificationTimeout(c) ==
  /\ notification[c].display = "block"
  /\ notification' = [notification EXCEPT ![c].display = "none"]
  /\ UNCHANGED <<sock, conns, serverVars, reqs, inbox, listVars, presenceVars,
                 monitorVars>>

\* setUsername with `value` in #username
setUsername(c, value) ==
  /\ myName' = [myName EXCEPT ![c] = IF Truthy(Trim(value)) THEN Trim(value) ELSE @]
  /\ notification' = [notification EXCEPT ![c] =
       IF Truthy(Trim(value))
         THEN showNotification(MsgNameSet(Trim(value)), FALSE)
         ELSE showNotification(MsgEnterName, TRUE)]
  /\ UNCHANGED <<sock, conns, serverVars, reqs, inbox, tempIdCounter, messagesEl,
                 pendingMessages, ackWait, presenceVars, monitorVars>>

\* a sendMessage that takes the tempId before it looks at the text
sendMessageRejected_consumesTempId(c) ==
  /\ notification' = [notification EXCEPT ![c] =
                        showNotification(MsgEnterMessage, TRUE)]
  /\ tempIdCounter' = [tempIdCounter EXCEPT ![c] = @ + 1]
  /\ UNCHANGED <<sock, conns, serverVars, reqs, inbox, myName, messagesEl,
                 pendingMessages, ackWait, presenceVars, monitorVars>>

\* sendMessage when the text trims to empty: showNotification and return
sendMessageRejected(c) ==
  /\ notification' = [notification EXCEPT ![c] =
                        showNotification(MsgEnterMessage, TRUE)]
  /\ UNCHANGED <<sock, conns, serverVars, reqs, inbox, listVars, presenceVars,
                 monitorVars>>

\* sendMessage with `value` in #m and `nameValue` in #username.  An event
\* emitted while the socket is disconnected waits in the library's buffer.
sendMessage(c, value, nameValue) ==
  LET text == Trim(value)
      username == Trim(Or(Or(myName[c], nameValue), Anonymous))
      tempId == tempIdCounter[c]
      li == createMessageElement(myName[c],
              [id |-> TempId(tempId), sender |-> username, text |-> text,
               createdAt |-> LocalTime, isPending |-> TRUE,
               status |-> Status("Sending", Undefined)])
      pos == Len(messagesEl[c]) + 1
  IN
  IF ~Truthy(text) THEN sendMessageRejected(c)
  ELSE
    /\ Len(reqs) < MaxReq
    /\ IF isTyping[c]
         THEN /\ isTyping' = [isTyping EXCEPT ![c] = FALSE]
              /\ typingLog' = Append(typingLog, TypingEvent(c, "stop_typing", "send"))
              /\ typingTimeout' = [typingTimeout EXCEPT ![c] = FALSE]
         ELSE UNCHANGED presenceVars
    /\ tempIdCounter' = [tempIdCounter EXCEPT ![c] = @ + 1]
    /\ messagesEl' = [messagesEl EXCEPT ![c] = Append(@, li)]
    /\ pendingMessages' = [pendingMessages EXCEPT ![c] =
         [k \in DOMAIN @ \cup {tempId} |->
            IF k = tempId THEN [li |-> pos, username |-> username, text |-> text]
            ELSE @[k]]]
    /\ reqs' = Append(reqs, NewReq(c, Data(username, text),
                                   Callback("initial", tempId, pos)))
    /\ ackWait' = [ackWait EXCEPT ![c] = @ \cup {Len(reqs) + 1}]
    /\ UNCHANGED <<sock, conns, serverVars, inbox, myName, notification, monitorVars>>

\* handleAcknowledgement(tempId, acknowledgement): the new #messages and
\* pendingMessages of client c
handleAcknowledgementList(c, tempId, ack) ==
  IF tempId \notin DOMAIN pendingMessages[c] THEN messagesEl[c]
  ELSE
    LET pending == pendingMessages[c][tempId]
        li == messagesEl[c][pending.li]
    IN
    IF ack.status = "success" THEN
      LET u == updateMessageElement(li,
                 [sender |-> ack.sender, text |-> ack.text,
                  createdAt |-> ack.timestamp,
                  status |-> Status("Delivered", Undefined),
                  id |-> RowId(ack.messageId)])
      IN [messagesEl[c] EXCEPT ![pending.li] =
            [u EXCEPT !.classes = (@ \ {"pending"}) \cup {"me"}]]
    ELSE
      LET e == [li EXCEPT !.classes = (@ \ {"pending"}) \cup {"error"}]
          u == updateMessageElement(e,
                 [NoUpdates EXCEPT !.status = Status("Failed", Or(ack.message, Undefined))])
      IN [messagesEl[c] EXCEPT ![pending.li] =
            addRetryButton(u, pending.username, pending.text)]

handleAcknowledgementPending(c, tempId) ==
  [k \in DOMAIN pendingMessages[c] \ {tempId} |-> pendingMessages[c][k]]

\* the notification handleAcknowledgement leaves
handleAcknowledgementNotification(c, tempId, ack) ==
  IF tempId \notin DOMAIN pendingMessages[c] THEN notification[c]
  ELSE IF ack.status = "success" THEN showNotification(MsgSentAt, FALSE)
  ELSE showNotification(MsgFailedToSend(Or(ack.message, Undefined)), TRUE)

\* The callback retryBtn.onclick passes to socket.emit, for the element at pos
retryAcknowledgement(c, pos, ack) ==
  LET li == messagesEl[c][pos] IN
  IF ack.status = "success" THEN
    LET u == updateMessageElement(li,
               [NoUpdates EXCEPT !.status = Status("DeliveredRetried", Undefined)])
    IN [messagesEl[c] EXCEPT ![pos] =
          [u EXCEPT !.classes = (@ \ {"pending"}) \cup {"me"}, !.retryBtn = "none"]]
  ELSE
    LET e == [li EXCEPT !.classes = (@ \ {"pending"}) \cup {"error"}]
        u == updateMessageElement(e,
               [NoUpdates EXCEPT !.status = Status("Failed", ack.message)])
    IN [messagesEl[c] EXCEPT ![pos] = [u EXCEPT !.retryBtn = "enabled"]]

\* an onclick that leaves the button enabled while the retry is in flight
retryClick_stillEnabled(c, pos) ==
  /\ pos \in DOMAIN messagesEl[c]
  /\ messagesEl[c][pos].retryBtn = "enabled"
  /\ Len(reqs) < MaxReq
  /\ LET li == messagesEl[c][pos]
         d == [li EXCEPT !.classes = (@ \ {"error"}) \cup {"pending"}]
         u == updateMessageElement(d,
                [NoUpdates EXCEPT !.status = Status("Retrying", Undefined)])
     IN
     /\ messagesEl' = [messagesEl EXCEPT ![c][pos] = u]
     /\ reqs' = Append(reqs, NewReq(c, li.retryData, Callback("retry", 0, pos)))
     /\ ackWait' = [ackWait EXCEPT ![c] = @ \cup {Len(reqs) + 1}]
  /\ UNCHANGED <<sock, conns, serverVars, inbox, myName, tempIdCounter, pendingMessages,
                 notification, presenceVars, monitorVars>>

\* A click on the enabled retry button of the element at pos
retryClick(c, pos) ==
  /\ pos \in DOMAIN messagesEl[c]
  /\ messagesEl[c][pos].retryBtn = "enabled"
  /\ Len(reqs) < MaxReq
  /\ LET li == messagesEl[c][pos]
         d == [li EXCEPT !.retryBtn = "disabled",
                         !.classes = (@ \ {"error"}) \cup {"pending"}]
         u == updateMessageElement(d,
                [NoUpdates EXCEPT !.status = Status("Retrying", Undefined)])
     IN
     /\ messagesEl' = [messagesEl EXCEPT ![c][pos] = u]
     /\ reqs' = Append(reqs, NewReq(c, li.retryData, Callback("retry", 0, pos)))
     /\ ackWait' = [ackWait EXCEPT ![c] = @ \cup {Len(reqs) + 1}]
  /\ UNCHANGED <<sock, conns, serverVars, inbox, myName, tempIdCounter, pendingMessages,
                 notification, presenceVars, monitorVars>>

\* The acknowledgement packet at the head of c's wire arrives: the library
\* invokes the callback registered for that request, once.
ReceiveAck(c) ==
  /\ inbox[c] # <<>>
  /\ Head(inbox[c]).ev = "ack"
  /\ LET pkt == Head(inbox[c])
         cb == reqs[pkt.req].cb
     IN
     /\ inbox' = [inbox EXCEPT ![c] = Tail(@)]
     /\ IF pkt.req \notin ackWait[c] THEN
          UNCHANGED <<messagesEl, pendingMessages, ackWait, notification>>
        ELSE
          /\ ackWait' = [ackWait EXCEPT ![c] = @ \ {pkt.req}]
          /\ IF cb.kind = "initial" THEN
               /\ messagesEl' = [messagesEl EXCEPT ![c] =
                                   handleAcknowledgementList(c, cb.tempId, pkt.ack)]
               /\ pendingMessages' = [pendingMessages EXCEPT ![c] =
                                        handleAcknowledgementPending(c, cb.tempId)]
               /\ notification' = [notification EXCEPT ![c] =
                                     handleAcknowledgementNotification(c, cb.tempId, pkt.ack)]
             ELSE
               /\ messagesEl' = [messagesEl EXCEPT ![c] =
                                   retryAcknowledgement(c, cb.li, pkt.ack)]
               /\ UNCHANGED <<pendingMessages, notification>>
  /\ UNCHANGED <<sock, conns, serverVars, reqs, myName, tempIdCounter, presenceVars,
                 monitorVars>>

\* handleIncomingMessage(msg): the new #messages of client c
handleIncomingMessage(c, msg) ==
  IF msg.sender = myName[c] /\ msg.isBroadcast /\ ~msg.isOwnMessage
    THEN messagesEl[c]
    ELSE Append(messagesEl[c],
           createMessageElement(myName[c],
             [id |-> RowId(msg.id), sender |-> msg.sender, text |-> msg.text,
              createdAt |-> msg.createdAt, isPending |-> FALSE,
              status |-> Status(IF msg.isOwnMessage THEN "Sent" ELSE "Received",
                                Undefined)]))

\* The 'chat message' packet at the head of c's wire arrives
ReceiveChatMessage(c) ==
  /\ inbox[c] # <<>>
  /\ Head(inbox[c]).ev = "chat message"
  /\ inbox' = [inbox EXCEPT ![c] = Tail(@)]
  /\ messagesEl' = [messagesEl EXCEPT ![c] =
                      handleIncomingMessage(c, Head(inbox[c]).msg)]
  /\ UNCHANGED <<sock, conns, serverVars, reqs, myName, tempIdCounter,
                 pendingMessages, ackWait, notification, presenceVars, monitorVars>>

\* a handler that acknowledges successes only
AckLog_errorsDropped(rq, r, ack) ==
  IF HasCallback(rq) /\ ack.status = "success"
    THEN Append(acks, [req |-> r, ack |-> ack]) ELSE acks

\* The handler's invocation of acknowledgementCallback, when one was given
AckLog(rq, r, ack) ==
  IF HasCallback(rq) THEN Append(acks, [req |-> r, ack |-> ack]) ELSE acks

\* ------------------------------------------------ 'chat message' handler
\* The server runs the handler for request r of the sequence rqs: it calls
\* sendMessage, which either throws (no payload object), returns the
\* validation failure, or calls saveMessage and so Message.create, whose
\* promise stays pending.
HandleChatMessage(rqs, r) ==
  LET rq == rqs[r]
      data == rq.data
  IN
  IF ~data.obj THEN
    /\ reqs' = [rqs EXCEPT ![r].pc = "done"]
    /\ acks' = AckLog(rq, r, AckInternal)
    /\ inbox' = [c \in UIClients |-> inbox[c] \o AckPackets(rq, r, c, AckInternal)]
  ELSE IF IsEmptyMessage(data) THEN
    /\ reqs' = [rqs EXCEPT ![r].pc = "done", ![r].res = ValidationFailure]
    /\ acks' = AckLog(rq, r, AckError(ValidationFailure))
    /\ inbox' = [c \in UIClients |->
                   inbox[c] \o AckPackets(rq, r, c, AckError(ValidationFailure))]
  ELSE
    /\ reqs' = [rqs EXCEPT ![r].pc = "saving", ![r].creates = @ + 1]
    /\ UNCHANGED <<acks, inbox>>

\* The server receives request r, emitted by the page script.  A connection
\* delivers its packets in the order they were emitted.
OnChatMessage(r) ==
  /\ reqs[r].pc = "inflight"
  /\ \A q \in 1..(r - 1) :
       ~(reqs[q].sock = reqs[r].sock /\ reqs[q].pc = "inflight")
  /\ HandleChatMessage(reqs, r)
  /\ UNCHANGED <<sock, conns, ioSockets, clients, store, emits, uiVars>>

\* The server receives 'chat message' from a peer that is not the page
\* script: any payload, with or without an acknowledgement callback.
OnRawChatMessage(p, data, withCb) ==
  /\ sock[p] # 0
  /\ Len(reqs) < MaxReq
  /\ HandleChatMessage(
       Append(reqs, NewReq(p, data, Callback(IF withCb THEN "raw" ELSE "none", 0, 0))),
       Len(reqs) + 1)
  /\ UNCHANGED <<sock, conns, ioSockets, clients, store, emits, uiVars>>

\* Message.create resolves: the row is stored, sendMessage broadcasts and
\* returns, the handler acknowledges and sends the sender its own message.
CreateResolves(r) ==
  /\ reqs[r].pc = "saving"
  /\ LET saved == MessageCreate(store,
                    saveMessageValues(sendMessageData(reqs[r].data)), r)
         result == SendSuccess(saveMessageOk(saved))
         others == sendMessageTargets(clients, ioSockets, reqs[r].sock)
         own == IF HasCallback(reqs[r])
                  THEN sendToClient(clients, ioSockets, reqs[r].sock) ELSE {}
     IN
     /\ store' = Append(store, saved)
     /\ reqs' = [reqs EXCEPT ![r].pc = "done", ![r].res = result,
                              ![r].present = ioSockets,
                              ![r].registered = DOMAIN clients]
     /\ emits' = emits \o EmitLog(r, others, result.broadcastData)
                       \o EmitLog(r, own, OwnMessage(result))
     /\ acks' = AckLog(reqs[r], r, AckSuccess(result))
     /\ inbox' = [c \in UIClients |->
                    inbox[c] \o ChatPackets(r, c, others, result.broadcastData)
                             \o AckPackets(reqs[r], r, c, AckSuccess(result))
                             \o ChatPackets(r, c, own, OwnMessage(result))]
  /\ UNCHANGED <<sock, conns, ioSockets, clients, uiVars>>

\* Message.create throws an error whose message is `detail`: saveMessage
\* returns the failure, sendMessage returns DATABASE_ERROR without
\* broadcasting, the handler acknowledges the error.
CreateRejects(r, detail) ==
  /\ reqs[r].pc = "saving"
  /\ LET result == DatabaseFailure(saveMessageFailed(detail)) IN
     /\ reqs' = [reqs EXCEPT ![r].pc = "done", ![r].res = result,
                              ![r].rejected = TRUE, ![r].detail = detail]
     /\ acks' = AckLog(reqs[r], r, AckError(result))
     /\ inbox' = [c \in UIClients |-> inbox[c] \o AckPackets(reqs[r], r, c, AckError(result))]
  /\ UNCHANGED <<sock, conns, ioSockets, clients, store, emits, uiVars>>

\* Message.create resolves and the handler acknowledges the success, but
\* the emit of sendToClient throws: the catch branch invokes
\* acknowledgementCallback again.  Without a callback nothing of this runs.
CreateResolvesSendThrows(r) ==
  /\ reqs[r].pc = "saving"
  /\ HasCallback(reqs[r])
  /\ sendToClient(clients, ioSockets, reqs[r].sock) # {}
  /\ LET saved == MessageCreate(store,
                    saveMessageValues(sendMessageData(reqs[r].data)), r)
         result == SendSuccess(saveMessageOk(saved))
         others == sendMessageTargets(clients, ioSockets, reqs[r].sock)
     IN
     /\ store' = Append(store, saved)
     /\ reqs' = [reqs EXCEPT ![r].pc = "done", ![r].res = result,
                              ![r].present = ioSockets,
                              ![r].registered = DOMAIN clients]
     /\ emits' = emits \o EmitLog(r, others, result.broadcastData)
     /\ acks' = Append(AckLog(reqs[r], r, AckSuccess(result)),
                       [req |-> r, ack |-> AckInternal])
     /\ inbox' = [c \in UIClients |->
                    inbox[c] \o ChatPackets(r, c, others, result.broadcastData)
                             \o AckPackets(reqs[r], r, c, AckSuccess(result))]
  /\ UNCHANGED <<sock, conns, ioSockets, clients, uiVars>>

Next ==
  \/ \E p \in Peers : Connect(p)
  \/ \E p \in Peers : Disconnect(p)
  \/ \E p \in RawClients, data \in RawData, withCb \in BOOLEAN :
       OnRawChatMessage(p, data, withCb)
  \/ \E c \in UIClients, value \in ValidNames : setUsername(c, value)
  \/ \E c \in UIClients, value \in ValidTexts, nameValue \in InputNames :
       sendMessage(c, value, nameValue)
  \/ \E c \in UIClients, pos \in 1..MaxReq : retryClick(c, pos)
  \/ \E c \in UIClients : ReceiveAck(c)
  \/ \E c \in UIClients : ReceiveChatMessage(c)
  \/ \E r \in DOMAIN reqs : OnChatMessage(r)
  \/ \E r \in DOMAIN reqs : CreateResolves(r)
  \/ \E r \in DOMAIN reqs, detail \in ErrDetails : CreateRejects(r, detail)

Spec == Init /\ [][Next]_vars

\* --------------------------------------------------- connection monitor
\* A reconnection attempt of the Manager fails.  Attempt n runs the
\* 'reconnect_attempt' handler when the library delivers Manager events on
\* the socket (onSocket); 'reconnect_error' only logs.  After
\* reconnectionAttempts failures the Manager gives up ('reconnect_failed',
\* which has no handler).
ReconnectAttemptFails(c, onSocket) ==
  /\ sock[c] = 0
  /\ reconnecting[c]
  /\ attempts[c] < ReconnectionAttempts
  /\ attempts' = [attempts EXCEPT ![c] = @ + 1]
  /\ reconnecting' = [reconnecting EXCEPT ![c] = attempts[c] + 1 < ReconnectionAttempts]
  /\ statusDiv' = [statusDiv EXCEPT ![c] =
                     IF onSocket THEN StatusConnecting(attempts[c] + 1) ELSE @]
  /\ UNCHANGED <<sock, conns, serverVars, reqs, inbox, listVars, notification,
                 presenceVars, network, isOnline>>

\* an 'online' listener that also resends what is pending
Online_resendsPending(c) ==
  /\ ~network[c]
  /\ network' = [network EXCEPT ![c] = TRUE]
  /\ isOnline' = [isOnline EXCEPT ![c] = TRUE]
  /\ statusDiv' = [statusDiv EXCEPT ![c] = StatusOnline]
  /\ reqs' = IF DOMAIN pendingMessages[c] # {} /\ Len(reqs) < MaxReq
               THEN LET t == CHOOSE k \in DOMAIN pendingMessages[c] : TRUE
                        pm == pendingMessages[c][t]
                    IN Append(reqs, NewReq(c, Data(pm.username, pm.text),
                                           Callback("initial", t, pm.li)))
               ELSE reqs
  /\ UNCHANGED <<sock, conns, serverVars, inbox, listVars, notification,
                 presenceVars, attempts, reconnecting>>

\* The window's 'online' event
Online(c) ==
  /\ ~network[c]
  /\ network' = [network EXCEPT ![c] = TRUE]
  /\ isOnline' = [isOnline EXCEPT ![c] = TRUE]
  /\ statusDiv' = [statusDiv EXCEPT ![c] = StatusOnline]
  /\ UNCHANGED <<sock, conns, serverVars, reqs, inbox, listVars, notification,
                 presenceVars, attempts, reconnecting>>

\* The window's 'offline' event
Offline(c) ==
  /\ network[c]
  /\ network' = [network EXCEPT ![c] = FALSE]
  /\ isOnline' = [isOnline EXCEPT ![c] = FALSE]
  /\ statusDiv' = [statusDiv EXCEPT ![c] = StatusOffline]
  /\ notification' = [notification EXCEPT ![c] = showNotification(MsgOffline, TRUE)]
  /\ UNCHANGED <<sock, conns, serverVars, reqs, inbox, listVars, presenceVars,
                 attempts, reconnecting>>

\* checkServerHealth, when its fetch of /health has settled with `result`
checkServerHealth(c, result) ==
  /\ statusDiv' = [statusDiv EXCEPT ![c] =
       IF result = "healthy" THEN StatusHealthy
       ELSE IF result = "unhealthy" THEN StatusIssues
       ELSE StatusUnreachable]
  /\ UNCHANGED <<sock, conns, serverVars, reqs, inbox, listVars, notification,
                 presenceVars, network, isOnline, attempts, reconnecting>>

\* The browser alone with the server, its connection dropping and its
\* network going away and coming back.
MonitorNext ==
  \/ \E c \in UIClients : Connect(c)
  \/ \E c \in UIClients : Disconnect(c)
  \/ \E c \in UIClients, onSocket \in BOOLEAN : ReconnectAttemptFails(c, onSocket)
  \/ \E c \in UIClients : Online(c)
  \/ \E c \in UIClients : Offline(c)
  \/ \E c \in UIClients, result \in HealthResults : checkServerHealth(c, result)
  \/ \E c \in UIClients, value \in ValidTexts, nameValue \in ValidNames :
       sendMessage(c, value, nameValue)
  \/ \E c \in UIClients, pos \in 1..MaxReq : retryClick(c, pos)
  \/ \E c \in UIClients : ReceiveAck(c)
  \/ \E c \in UIClients : ReceiveChatMessage(c)
  \/ \E r \in DOMAIN reqs : OnChatMessage(r)
  \/ \E r \in DOMAIN reqs : CreateResolves(r)
  \/ \E r \in DOMAIN reqs, detail \in ErrDetails : CreateRejects(r, detail)

MonitorSpec == Init /\ [][MonitorNext]_vars

\* ------------------------------------------------------ typing signals
\* The server receives the oldest 'typing' or 'stop_typing' event on the
\* wire.  io.on('connection') registers listeners for 'chat message' and
\* 'disconnect' only: the event has no listener and nothing is emitted.
OnTyping(k) ==
  /\ typingLog[k].pc = "inflight"
  /\ \A j \in 1..(k - 1) : typingLog[j].pc # "inflight"
  /\ typingLog' = [typingLog EXCEPT ![k].pc = "received",
                                    ![k].registered = DOMAIN clients]
  /\ UNCHANGED <<sock, conns, serverVars, reqs, inbox, listVars, notification,
                 isTyping, typingTimeout, monitorVars>>

\* The browser's user at the keyboard, and the server as far as typing
\* events reach it.
PresenceNext ==
  \/ \E p \in UIClients \cup Listeners : Connect(p)
  \/ \E p \in UIClients \cup Listeners : Disconnect(p)
  \/ \E c \in UIClients, value \in InputNames : setUsername(c, value)
  \/ \E c \in UIClients : handleTyping(c)
  \/ \E c \in UIClients : TypingTimeoutFires(c)
  \/ \E c \in UIClients, value \in InputTexts, nameValue \in InputNames :
       sendMessage(c, value, nameValue)
  \/ \E c \in UIClients : NotificationTimeout(c)
  \/ \E k \in DOMAIN typingLog : OnTyping(k)

PresenceSpec == Init /\ [][PresenceNext]_vars

\* ------------------------------------------------------------ namesakes
\* The browser and another session whose messages carry the name the
\* browser's user may set.
NamesakeNext ==
  \/ \E p \in UIClients \cup RawClients : Connect(p)
  \/ \E p \in UIClients \cup RawClients : Disconnect(p)
  \/ \E c \in UIClients, value \in ValidNames : setUsername(c, value)
  \/ \E p \in RawClients, data \in NamesakeData, withCb \in BOOLEAN :
       OnRawChatMessage(p, data, withCb)
  \/ \E r \in DOMAIN reqs : CreateResolves(r)
  \/ \E r \in DOMAIN reqs, detail \in ErrDetails : CreateRejects(r, detail)
  \/ \E c \in UIClients : ReceiveChatMessage(c)

NamesakeSpec == Init /\ [][NamesakeNext]_vars

\* ------------------------------------------------------- the server alone
\* The server with peers that are not the page script.  The store settles
\* every call it was handed; an emit may throw.
StoreSettles ==
  \E r \in DOMAIN reqs :
    \/ CreateResolves(r)
    \/ CreateResolvesSendThrows(r)
    \/ \E detail \in ErrDetails : CreateRejects(r, detail)

ServerNext ==
  \/ \E p \in RawClients \cup Listeners : Connect(p)
  \/ \E p \in RawClients \cup Listeners : Disconnect(p)
  \/ \E p \in RawClients, data \in ServerData, withCb \in BOOLEAN :
       OnRawChatMessage(p, data, withCb)
  \/ \E r \in DOMAIN reqs : CreateResolves(r)
  \/ \E r \in DOMAIN reqs : CreateResolvesSendThrows(r)
  \/ \E r \in DOMAIN reqs, detail \in ErrDetails : CreateRejects(r, detail)

ServerSpec == Init /\ [][ServerNext]_vars /\ WF_vars(StoreSettles)


\* ------------------------------------------------------------ properties
Done(r) == reqs[r].pc = "done"
Requests == DOMAIN reqs
RowsOf(r) == {i \in DOMAIN store : store[i].req = r}
RowOf(r) == store[CHOOSE i \in RowsOf(r) : TRUE]
AcksOf(r) == {k \in DOMAIN acks : acks[k].req = r}
EmitsOf(r) == {k \in DOMAIN emits : emits[k].req = r}
Persisted(r) == Done(r) /\ RowsOf(r) # {}

\* the public broadcast payload, and the sender's own copy
IsPublic(msg) == msg.isBroadcast /\ ~msg.isOwnMessage
PublicTo(r, s) == {k \in EmitsOf(r) : s \in emits[k].to /\ IsPublic(emits[k].msg)}
OwnTo(r, s) == {k \in EmitsOf(r) : s \in emits[k].to /\ emits[k].msg.isOwnMessage}

\* a text that is non-empty after trimming; one that is absent or trims to empty
NonBlank(v) == v.def /\ \E i \in DOMAIN v.s : v.s[i] # SP
Blank(v) == ~v.def \/ \A i \in DOMAIN v.s : v.s[i] = SP

\* C1: a 'chat message' event whose text is non-empty after trimming and
\* whose Message.create succeeds has exactly one stored row, made by one
\* create call, and its callback is invoked once, with status 'success' and
\* messageId the id of that row.
C1_PersistsOnceAndAcksRowId ==
  \A r \in Requests :
    (reqs[r].data.obj /\ NonBlank(reqs[r].data.text) /\ Done(r) /\ ~reqs[r].rejected) =>
      /\ Cardinality(RowsOf(r)) = 1
      /\ reqs[r].creates = 1
      /\ \A i \in RowsOf(r) : store[i].id = i
      /\ HasCallback(reqs[r]) =>
           /\ Cardinality(AcksOf(r)) = 1
           /\ \A k \in AcksOf(r) :
                /\ acks[k].ack.status = "success"
                /\ acks[k].ack.messageId = RowOf(r).id

\* a second row exists, and the acknowledged request's text needed trimming
C1_Witness ==
  \E r \in Requests :
    /\ Persisted(r) /\ HasCallback(reqs[r]) /\ AcksOf(r) # {}
    /\ RowOf(r).id = 2
    /\ reqs[r].data.text # Trim(reqs[r].data.text)

C3_StoreFailureIsReported ==
  \A r \in Requests :
    reqs[r].rejected =>
      /\ ~reqs[r].res.success
      /\ reqs[r].res.code = "DATABASE_ERROR"
      /\ reqs[r].res.code # ValidationFailure.code
      /\ Truthy(reqs[r].detail) => reqs[r].res.error = reqs[r].detail
      /\ EmitsOf(r) = {}
      /\ RowsOf(r) = {}

\* a create failed with a message; the sender and another session are connected
C3_Witness ==
  \E r \in Requests :
    /\ reqs[r].rejected /\ Truthy(reqs[r].detail)
    /\ reqs[r].sock \in DOMAIN clients
    /\ DOMAIN clients \ {reqs[r].sock} # {}

\* the public payload carries the row's sender and text
CarriesRow(msg, row) ==
  msg.sender = row.username /\ msg.text = row.text /\ msg.isBroadcast

\* C4, as stated: every session other than the sender that is connected
\* when the send is persisted receives exactly one broadcast of the row,
\* also when the sender disconnected while the store call was pending.
C4_AsStated ==
  \A r \in Requests :
    Persisted(r) =>
      \A s \in reqs[r].present \ {reqs[r].sock} :
        /\ Cardinality(PublicTo(r, s)) = 1
        /\ \A k \in PublicTo(r, s) : CarriesRow(emits[k].msg, RowOf(r))

\* C4, amended: when the send is persisted while the sender's session is
\* still registered, every other session connected at that time receives
\* exactly one broadcast carrying the row's sender and text with
\* isBroadcast; when the sender disconnected while the store call was
\* pending, no session receives the broadcast.
C4_BroadcastWhileSenderRegistered ==
  \A r \in Requests :
    Persisted(r) =>
      IF reqs[r].sock \in reqs[r].registered
        THEN \A s \in reqs[r].present \ {reqs[r].sock} :
               /\ Cardinality(PublicTo(r, s)) = 1
               /\ \A k \in PublicTo(r, s) : CarriesRow(emits[k].msg, RowOf(r))
        ELSE \A s \in reqs[r].present : PublicTo(r, s) = {}

\* the browser's send is persisted while both other peers are connected
C4_Witness ==
  \E r \in Requests :
    /\ Persisted(r)
    /\ reqs[r].client \in UIClients
    /\ reqs[r].sock \in reqs[r].registered
    /\ Cardinality(reqs[r].present \ {reqs[r].sock}) = 2

\* C5: the session a successful send came from never receives the public
\* payload of its own message; when it is still registered as the handler
\* finishes and gave a callback, the callback is invoked once and the
\* session receives exactly one 'chat message' with the row's id, sender,
\* text and createdAt and isOwnMessage true, which no other session gets.
C5_SenderGetsOnlyItsOwnCopy ==
  \A r \in Requests :
    Persisted(r) =>
      /\ PublicTo(r, reqs[r].sock) = {}
      /\ (HasCallback(reqs[r]) /\ reqs[r].sock \in reqs[r].registered) =>
           /\ Cardinality(AcksOf(r)) = 1
           /\ Cardinality(OwnTo(r, reqs[r].sock)) = 1
           /\ \A k \in EmitsOf(r) :
                emits[k].msg.isOwnMessage =>
                  /\ emits[k].to = {reqs[r].sock}
                  /\ emits[k].msg.id = RowOf(r).id
                  /\ emits[k].msg.sender = RowOf(r).username
                  /\ emits[k].msg.text = RowOf(r).text
                  /\ emits[k].msg.createdAt = RowOf(r).createdAt

\* a send with a callback is persisted while the sender and another session are registered
C5_Witness ==
  \E r \in Requests :
    /\ Persisted(r) /\ HasCallback(reqs[r])
    /\ reqs[r].sock \in reqs[r].registered
    /\ reqs[r].present \ {reqs[r].sock} # {}
    /\ OwnTo(r, reqs[r].sock) # {}

\* C6: broadcastExcept with a registered originId delivers to every
\* registered session other than originId and to nobody else, so to nobody
\* when originId is the only registered session; each broadcast the server
\* made for a registered sender reached exactly those sessions.
C6_BroadcastExceptRegistered ==
  /\ \A s \in DOMAIN clients :
       /\ broadcastExcept(clients, ioSockets, s) = DOMAIN clients \ {s}
       /\ DOMAIN clients = {s} => broadcastExcept(clients, ioSockets, s) = {}
  /\ \A r \in Requests :
       (Persisted(r) /\ reqs[r].sock \in reqs[r].registered) =>
         /\ UNION {emits[k].to : k \in {j \in EmitsOf(r) : IsPublic(emits[j].msg)}}
              = reqs[r].registered \ {reqs[r].sock}
         /\ reqs[r].registered = {reqs[r].sock} =>
              {j \in EmitsOf(r) : IsPublic(emits[j].msg)} = {}

\* a broadcast was made with three sessions registered
C6_Witness ==
  \E r \in Requests :
    /\ Persisted(r)
    /\ reqs[r].sock \in reqs[r].registered
    /\ Cardinality(reqs[r].registered) = 3
    /\ \E k \in EmitsOf(r) : IsPublic(emits[k].msg) /\ Cardinality(emits[k].to) = 2

\* every socket id handed out so far, and each peer's next one
SocketIds == {SocketId(p, n) : p \in Peers, n \in 1..(MaxConn + 1)}

\* C7: broadcastExcept with an originId that is not in the registry sends
\* to no session; a send persisted after its sender was unregistered
\* caused no 'chat message' emit at all.
C7_BroadcastExceptUnregistered ==
  /\ \A s \in (SocketIds \cup {NoSocket}) \ DOMAIN clients :
       broadcastExcept(clients, ioSockets, s) = {}
  /\ \A r \in Requests :
       (Persisted(r) /\ reqs[r].sock \notin reqs[r].registered) => EmitsOf(r) = {}

\* a send was persisted after its sender left, with another session connected
C7_Witness ==
  \E r \in Requests :
    /\ Persisted(r)
    /\ reqs[r].sock \notin reqs[r].registered
    /\ reqs[r].present # {}

\* sessions of peer p in the registry
SessionsOf(p) == {s \in DOMAIN clients : s[1] = p}

RegistryMatchesConnections ==
  /\ DOMAIN clients = ioSockets
  /\ getConnectedClients(clients) = {CurrentSocket(p) : p \in {q \in Peers : sock[q] # 0}}
  /\ getClientCount(clients) = Cardinality({q \in Peers : sock[q] # 0})
  /\ \A p \in Peers : Cardinality(SessionsOf(p)) = IF sock[p] # 0 THEN 1 ELSE 0

RegistryStep ==
  \/ DOMAIN clients' = DOMAIN clients
  \/ \E p \in Peers :
       /\ sock[p] = 0 /\ sock'[p] # 0
       /\ DOMAIN clients' = DOMAIN clients \cup {SocketId(p, sock'[p])}
       /\ SocketId(p, sock'[p]) \notin DOMAIN clients
  \/ \E p \in Peers :
       /\ sock[p] # 0 /\ sock'[p] = 0
       /\ DOMAIN clients' = DOMAIN clients \ {SocketId(p, sock[p])}
       /\ SocketId(p, sock[p]) \in DOMAIN clients

\* C8: in every reachable state the keys of SocketAdapter.clients are the
\* open connections and getClientCount is their number; a connection-open
\* adds exactly its own id and a connection-close removes exactly its own
\* id, so a peer that drops and reconnects has exactly one session.
C8_RegistryIsOpenConnections ==
  []RegistryMatchesConnections /\ [][RegistryStep]_vars

\* the browser dropped and reconnected while another peer stayed connected
C8_Witness ==
  /\ sock["c1"] = 2
  /\ SessionsOf("c1") = {SocketId("c1", 2)}
  /\ getClientCount(clients) = 2

\* list entries of client c that show the message of request r: the
\* element its callback updates, and elements rendered for the row it stored
EntriesFor(c, r) ==
  {i \in DOMAIN messagesEl[c] :
     \/ i = reqs[r].cb.li
     \/ RowsOf(r) # {} /\ messagesEl[c][i].messageId = RowId(RowOf(r).id)}

\* an element shown as sent successfully
ShownDelivered(li) ==
  /\ li.status.tag \in {"Delivered", "DeliveredRetried", "Sent"}
  /\ "pending" \notin li.classes /\ "error" \notin li.classes

RetriesOf(c) == {r \in Requests : reqs[r].client = c /\ reqs[r].cb.kind = "retry"}

\* C9, as stated: a retry reuses the element of the failed send, so the
\* list holds one entry for that message before the retry resolves and
\* after, and once the retry has succeeded exactly one entry shows that
\* message as delivered.
C9_RetryKeepsOneEntry ==
  \A c \in UIClients : \A r \in RetriesOf(c) :
    /\ Cardinality(EntriesFor(c, r)) = 1
    /\ (Persisted(r) /\ r \notin ackWait[c]) =>
         Cardinality({i \in EntriesFor(c, r) : ShownDelivered(messagesEl[c][i])}) = 1

\* outstanding acknowledgement callbacks of the element at pos
OutstandingFor(c, pos) == {r \in ackWait[c] : reqs[r].cb.li = pos}

\* C10: every element in the pending state has exactly one outstanding
\* acknowledgement callback, no element ever has more than one, and the
\* retry button is enabled only when the element has none.
C10_OneOutstandingCallback ==
  \A c \in UIClients : \A pos \in DOMAIN messagesEl[c] :
    /\ Cardinality(OutstandingFor(c, pos)) <= 1
    /\ "pending" \in messagesEl[c][pos].classes =>
         Cardinality(OutstandingFor(c, pos)) = 1
    /\ messagesEl[c][pos].retryBtn = "enabled" => OutstandingFor(c, pos) = {}
    /\ OutstandingFor(c, pos) # {} => "pending" \in messagesEl[c][pos].classes

\* a retry is in flight: its element is pending again and the button is disabled
C10_Witness ==
  \E c \in UIClients : \E r \in RetriesOf(c) :
    /\ r \in ackWait[c]
    /\ messagesEl[c][reqs[r].cb.li].retryBtn = "disabled"
    /\ "pending" \in messagesEl[c][reqs[r].cb.li].classes

\* C11: the acknowledgement callback of a handled 'chat message' event is
\* invoked at most once, whatever the outcome of validation, persistence,
\* broadcasting and the send to the sender, an exception raised after the
\* success acknowledgement included.
C11_AckAtMostOnce ==
  \A r \in Requests : Cardinality(AcksOf(r)) <= 1

\* the server has received request r, which carries a callback
Received(r) ==
  r \in DOMAIN reqs /\ HasCallback(reqs[r]) /\ reqs[r].pc \in {"saving", "done"}

Acknowledged(r) ==
  /\ r \in DOMAIN reqs
  /\ \E k \in AcksOf(r) : acks[k].ack.status \in {"success", "error"}

\* C12: every 'chat message' event the server received with a callback
\* eventually has the callback invoked with a success or an error result,
\* whether the store call succeeds, fails, or sendMessage throws; a handler
\* that has finished has acknowledged.
C12_EveryEventIsAcknowledged ==
  /\ \A r \in 1..(MaxReq + 1) : Received(r) ~> Acknowledged(r)
  /\ [](\A r \in Requests : (Received(r) /\ Done(r)) => Acknowledged(r))

\* a thrown exception, a store failure and a validation failure: an event
\* without payload and one whose create was rejected were both acknowledged
C12_Witness ==
  /\ \E r \in Requests : ~reqs[r].data.obj /\ Received(r) /\ Acknowledged(r)
  /\ \E r \in Requests : reqs[r].rejected /\ Received(r) /\ Acknowledged(r)

\* 'typing' and 'stop_typing' events client c emitted, in order
TypingOf(c) == SelectSeq(typingLog, LAMBDA e : e.client = c)

\* C13: on a client with a name set the 'typing' and 'stop_typing'
\* emissions alternate strictly, starting with 'typing': a burst of input
\* emits 'typing' once, and is ended by one 'stop_typing', emitted by the
\* timer or by a send; the timer is pending exactly while a burst is open,
\* so after the 'stop_typing' of a send no timer is left to emit another.
C13_TypingAlternates ==
  \A c \in UIClients :
    LET log == TypingOf(c) IN
    /\ \A k \in DOMAIN log :
         /\ log[k].ev = (IF k % 2 = 1 THEN "typing" ELSE "stop_typing")
         /\ log[k].by \in (IF k % 2 = 1 THEN {"input"} ELSE {"timer", "send"})
         /\ Truthy(log[k].username)
    /\ isTyping[c] = (Len(log) % 2 = 1)
    /\ typingTimeout[c] = isTyping[c]

\* two bursts: one ended by a send, one by the timer
C13_Witness ==
  \E c \in UIClients :
    /\ \E k \in DOMAIN TypingOf(c) : TypingOf(c)[k].by = "send"
    /\ \E k \in DOMAIN TypingOf(c) : TypingOf(c)[k].by = "timer"
    /\ ~isTyping[c]

\* C14, as stated: for every 'typing' or 'stop_typing' event the server
\* received, it emitted 'user_typing' {user, isTyping} to every other
\* registered session and not to the originating one.
C14_TypingIsRelayed ==
  \A k \in DOMAIN typingLog :
    typingLog[k].pc = "received" =>
      /\ \A s \in typingLog[k].registered \ {typingLog[k].sock} :
           \E e \in DOMAIN emits :
             /\ emits[e].ev = "user_typing"
             /\ s \in emits[e].to
             /\ emits[e].msg.user = typingLog[k].username
             /\ emits[e].msg.isTyping = (typingLog[k].ev = "typing")
      /\ \A e \in DOMAIN emits :
           emits[e].ev = "user_typing" => typingLog[k].sock \notin emits[e].to

\* the Manager of client c has used up its reconnection attempts
Exhausted(c) ==
  sock[c] = 0 /\ ~reconnecting[c] /\ attempts[c] = ReconnectionAttempts

\* C15, as stated: after a drop the client makes at most
\* reconnectionAttempts automatic attempts; once they are used up the
\* connection stays closed until an online (or manual) event occurs, and
\* that event puts the Manager back into its reconnection cycle with
\* attempt 1 as the next attempt.
C15_OnlineRestartsReconnection ==
  /\ [](\A c \in UIClients : attempts[c] <= ReconnectionAttempts)
  /\ [][\A c \in UIClients :
          (Exhausted(c) /\ network'[c] = network[c]) => Exhausted(c)']_vars
  /\ [][\A c \in UIClients :
          (Exhausted(c) /\ ~network[c] /\ network'[c]) =>
            (reconnecting'[c] /\ attempts'[c] = 0)]_vars

\* requests of the page script of client c
EmitsOfClient(c) == {r \in Requests : reqs[r].client = c}

\* a step of the connection's life: connect, disconnect, a reconnection
\* attempt, the network going or coming
LifecycleStep(c) ==
  \/ sock'[c] # sock[c]
  \/ attempts'[c] # attempts[c]
  \/ reconnecting'[c] # reconnecting[c]
  \/ network'[c] # network[c]

\* sendMessage added an element; a retry button went from enabled to disabled
SendStep(c) ==
  /\ tempIdCounter'[c] = tempIdCounter[c] + 1
  /\ Len(messagesEl'[c]) = Len(messagesEl[c]) + 1

RetryStep(c) ==
  \E pos \in DOMAIN messagesEl[c] :
    /\ messagesEl[c][pos].retryBtn = "enabled"
    /\ messagesEl'[c][pos].retryBtn = "disabled"

\* C20: a step of the connection's life emits no 'chat message' and leaves
\* what was emitted as it was; a 'chat message' of the page script appears
\* only in a step of sendMessage or of a click on an enabled retry button,
\* one per step; and the server handles no request twice.
C20_EmitsOnlyOnSendOrRetry ==
  /\ [][\A c \in UIClients :
          /\ LifecycleStep(c) =>
                /\ EmitsOfClient(c)' = EmitsOfClient(c)
                /\ \A r \in EmitsOfClient(c) :
                     reqs'[r].data = reqs[r].data /\ reqs'[r].cb = reqs[r].cb
          /\ EmitsOfClient(c)' # EmitsOfClient(c) =>
                /\ Cardinality(EmitsOfClient(c)') = Cardinality(EmitsOfClient(c)) + 1
                /\ SendStep(c) \/ RetryStep(c)]_vars
  /\ [](\A r \in Requests : reqs[r].creates <= 1)

\* the browser has reconnected; the request of an element that is still
\* pending was lost with the old connection, and a failed element waits
\* for its retry button
C20_Witness ==
  \E c \in UIClients :
    /\ sock[c] = 2
    /\ \E r \in EmitsOfClient(c) :
         /\ reqs[r].pc = "lost"
         /\ "pending" \in messagesEl[c][reqs[r].cb.li].classes
    /\ \E pos \in DOMAIN messagesEl[c] : messagesEl[c][pos].retryBtn = "enabled"

\* C16: a send whose text trims to empty consumes no tempId, adds no entry
\* to the list or to the pending map, emits neither 'chat message' nor
\* 'stop_typing', and leaves the typing flag and timer as they were; it
\* shows the error notification 'Please enter a message', and a step that
\* newly shows that notification changes nothing else.
C16_EmptySendCreatesNoState ==
  [][\A c \in UIClients :
       /\ \A value \in InputTexts, nameValue \in InputNames :
            (~Truthy(Trim(value)) /\ sendMessage(c, value, nameValue)) =>
              /\ UNCHANGED <<tempIdCounter, messagesEl, pendingMessages, reqs,
                             typingLog, isTyping, typingTimeout, ackWait>>
              /\ notification'[c] = showNotification(MsgEnterMessage, TRUE)
       /\ (/\ notification'[c] # notification[c]
           /\ notification'[c].text = MsgEnterMessage
           /\ notification'[c].display = "block") =>
            /\ UNCHANGED <<tempIdCounter, messagesEl, pendingMessages, reqs,
                           typingLog, isTyping, typingTimeout, ackWait>>
            /\ notification'[c].isError]_vars

\* the rejected send happened in the middle of a burst of typing, before
\* any message was sent
C16_Witness ==
  \E c \in UIClients :
    /\ notification[c] = showNotification(MsgEnterMessage, TRUE)
    /\ isTyping[c] /\ typingTimeout[c]
    /\ tempIdCounter[c] = 1 /\ messagesEl[c] = <<>> /\ reqs = <<>>

\* the element of client c that the callback of request r updates
ElementOf(c, r) == messagesEl[c][reqs[r].cb.li]

\* the callback of request r of client c has been invoked
CallbackRan(c, r) == r \notin ackWait[c] /\ AcksOf(r) # {}

\* C17, as stated: an element made Delivered by the success
\* acknowledgement of its send or of its retry carries the messageId of
\* the acknowledgement as its id and the stored sender and text, and is
\* not in the pending map.
C17_DeliveredCarriesServerValues ==
  \A c \in UIClients : \A r \in EmitsOfClient(c) :
    (/\ Persisted(r) /\ CallbackRan(c, r)
     /\ ElementOf(c, r).status.tag \in {"Delivered", "DeliveredRetried"}) =>
      /\ ElementOf(c, r).messageId = RowId(RowOf(r).id)
      /\ ElementOf(c, r).sender = RowOf(r).username
      /\ ElementOf(c, r).text = RowOf(r).text
      /\ \A t \in DOMAIN pendingMessages[c] : pendingMessages[c][t].li # reqs[r].cb.li

\* requests of client c for the element at pos: its send and its retries
RequestsFor(c, pos) == {r \in EmitsOfClient(c) : reqs[r].cb.li = pos}
InitialFor(c, pos) ==
  CHOOSE r \in RequestsFor(c, pos) : reqs[r].cb.kind = "initial"
LastFor(c, pos) ==
  CHOOSE r \in RequestsFor(c, pos) : \A q \in RequestsFor(c, pos) : q <= r

\* the error acknowledgements the handler can produce
ErrorAcks ==
  {AckError(ValidationFailure), AckInternal}
    \cup {AckError(DatabaseFailure(saveMessageFailed(d))) : d \in ErrDetails}

\* an element shown as failed, with an enabled retry button
ShownFailed(li) ==
  /\ "error" \in li.classes /\ "pending" \notin li.classes
  /\ li.status.tag = "Failed"
  /\ li.retryBtn = "enabled"

\* C18: an error acknowledgement of any code leaves the element it belongs
\* to failed, in place, with an enabled retry button; the button and every
\* retry carry the username and text of the original send, whatever myName
\* and the input fields hold by then.
C18_ErrorAckFailsInPlace ==
  \A c \in UIClients :
    /\ \A pos \in DOMAIN messagesEl[c] :
         RequestsFor(c, pos) # {} =>
           LET last == LastFor(c, pos) IN
           (CallbackRan(c, last) /\ \E k \in AcksOf(last) : acks[k].ack.status = "error") =>
             /\ ShownFailed(messagesEl[c][pos])
             /\ messagesEl[c][pos].retryData = reqs[InitialFor(c, pos)].data
    /\ \A r \in RetriesOf(c) :
         reqs[r].data = reqs[InitialFor(c, reqs[r].cb.li)].data
    /\ \A t \in DOMAIN pendingMessages[c] : \A ack \in ErrorAcks :
         LET list == handleAcknowledgementList(c, t, ack)
             pm == pendingMessages[c][t]
         IN /\ Len(list) = Len(messagesEl[c])
            /\ ShownFailed(list[pm.li])
            /\ list[pm.li].retryData = Data(pm.username, pm.text)
    /\ \A r \in RetriesOf(c) \cap ackWait[c] : \A ack \in ErrorAcks :
         LET list == retryAcknowledgement(c, reqs[r].cb.li, ack) IN
         /\ Len(list) = Len(messagesEl[c])
         /\ ShownFailed(list[reqs[r].cb.li])
         /\ list[reqs[r].cb.li].retryData = reqs[r].data

\* a retry failed again after the user changed the name: the button is
\* enabled and the retry carried the name of the original send
C18_Witness ==
  \E c \in UIClients : \E r \in RetriesOf(c) :
    /\ CallbackRan(c, r) /\ reqs[r].rejected
    /\ ShownFailed(ElementOf(c, r))
    /\ myName[c] # EmptyStr
    /\ reqs[r].data.username # myName[c]

\* C19, as stated: every 'chat message' event a client receives adds one
\* element to its list, not pending, and leaves the pending map alone,
\* also when the sender of the message is the local user name.
C19_EveryIncomingMessageIsListed ==
  [][\A c \in UIClients :
       (/\ inbox[c] # <<>> /\ Head(inbox[c]).ev = "chat message"
        /\ inbox'[c] = Tail(inbox[c]) /\ sock'[c] = sock[c]) =>
         /\ Len(messagesEl'[c]) = Len(messagesEl[c]) + 1
         /\ "pending" \notin messagesEl'[c][Len(messagesEl'[c])].classes
         /\ pendingMessages'[c] = pendingMessages[c]]_vars

\* C21, as stated: a result of the periodic health probe, whichever it is,
\* changes neither isOnline nor the status element, which keeps showing
\* what the last step of the connection's life put there.
C21_HealthProbeLeavesMonitor ==
  [][\A c \in UIClients : \A result \in HealthResults :
       checkServerHealth(c, result) =>
         /\ isOnline'[c] = isOnline[c]
         /\ statusDiv'[c] = statusDiv[c]]_vars

\* C22: every row of the store has a text that is non-empty and is its own
\* trimmed form, and a username that is neither absent nor empty, which is
\* 'Anonymous' when the event's username was absent or empty; and no step
\* changes or removes a row that is in the store.
C22_RowsAreTrimmedNamedAndKept ==
  /\ [](\A i \in DOMAIN store :
          /\ store[i].text.def
          /\ store[i].text.s # <<>>
          /\ Trim(store[i].text) = store[i].text
          /\ Truthy(store[i].username)
          /\ ~Truthy(reqs[store[i].req].data.username)
                => store[i].username = Anonymous)
  /\ [][/\ Len(store') >= Len(store)
        /\ \A i \in DOMAIN store : store'[i] = store[i]]_vars

\* two rows are stored: one of an event without a username, whose text ended
\* in white space, and, after it, one whose username was given
C22_Witness ==
  \E i, j \in DOMAIN store :
    /\ i < j
    /\ ~reqs[store[i].req].data.username.def
    /\ store[i].username = Anonymous
    /\ reqs[store[i].req].data.text # store[i].text
    /\ Truthy(reqs[store[j].req].data.username)
    /\ store[j].username = reqs[store[j].req].data.username

\* sends of the page script, without its retries
SendsOf(c) == {r \in EmitsOfClient(c) : reqs[r].cb.kind = "initial"}

\* every packet the server sent client c because of request r has arrived
Processed(c, r) ==
  /\ CallbackRan(c, r)
  /\ \A k \in DOMAIN inbox[c] : inbox[c][k].req # r

\* C23, as stated: once the success acknowledgement of a send and the
\* 'chat message' the server sent the sender for it have both been handled,
\* the sender's list holds exactly one entry for that message.
C23_OneEntryPerAcknowledgedSend ==
  \A c \in UIClients : \A r \in SendsOf(c) :
    (Persisted(r) /\ Processed(c, r)) => Cardinality(EntriesFor(c, r)) = 1

\* requests a and b came over one connection, a first, and both are stored
SentInOrder(a, b) ==
  /\ a < b
  /\ reqs[a].sock = reqs[b].sock
  /\ Persisted(a) /\ Persisted(b)

\* C24, as stated: when one session sent A and then B and both are stored,
\* the store created A's row before B's, and every other session that was
\* sent both broadcasts was sent A's before B's.
C24_SenderOrderIsKept ==
  \A a, b \in Requests :
    SentInOrder(a, b) =>
      /\ RowOf(a).id < RowOf(b).id
      /\ \A s \in ioSockets \cup reqs[a].present \cup reqs[b].present :
           \A i \in PublicTo(a, s), j \in PublicTo(b, s) : i < j

====
